---- MODULE Spec2Model ----
(***************************************************************************)
(* crypto-stock-analyzer: the failover fetchers (CryptoDataFetcher,        *)
(* StockDataFetcher) and the signal scorer                                 *)
(* (TechnicalAnalyzer.generate_trading_signals).                           *)
(*                                                                         *)
(* Numbers.  Python floats are modelled by integers on a fixed scale:      *)
(*   - seconds (retry_delay, sleeps, jitter) in tenths of a second;        *)
(*   - Bollinger percent-b in hundredths (0.8 is 80, 0.2 is 20);           *)
(*   - RSI, Williams %R, MFI, MACD and prices as whole numbers.            *)
(* A float that is NaN is the empty tuple <<>>, a defined float v is <<v>>.*)
(***************************************************************************)
EXTENDS Integers, Sequences, FiniteSets, TLC

VARIABLES
    \* ---- TechnicalAnalyzer (src/src/technical_analyzer.py) ----
    data,          \* self.data: what the scorer reads of it (len > 1, last Close)
    indicators,    \* self.indicators: name -> tail of the indicator series
    scorer_pc,     \* "new" until generate_trading_signals has returned, then "scored";
                   \* "edited" once the caller has changed the returned report,
                   \* "rescored" when generate_trading_signals has returned again
    signals,       \* the report generate_trading_signals returned last
    \* ---- CryptoDataFetcher / StockDataFetcher ----
    retry_count,   \* self.retry_count
    retry_delay,   \* self.retry_delay, in tenths of a second
    pc,            \* where the fetch is: "idle", the provider whose loop runs, "done", "raised"
    attempt,       \* loop variable of the provider loop that is running
    granularity,   \* the granularity argument of get_crypto_data
    log,           \* the requests sent so far, in order, each with the class of its outcome
    slept,         \* the sleeps of the latest loop iteration: pre-delay and backoff
    result,        \* what the fetch returned: None or a DataFrame
    \* ---- get_multiple_cryptos / get_multiple_stocks ----
    symbols,       \* the symbols argument
    batch_i,       \* how many symbols the loop has processed
    results,       \* the dict results: symbol -> DataFrame
    printed        \* the lines the batch has printed, in order

analyzerVars == <<data, indicators, scorer_pc, signals>>
fetchVars == <<retry_count, retry_delay, pc, attempt, granularity, log, slept, result>>
batchVars == <<symbols, batch_i, results, printed>>
vars == <<data, indicators, scorer_pc, signals,
          retry_count, retry_delay, pc, attempt, granularity, log, slept, result,
          symbols, batch_i, results, printed>>

(***************************************************************************)
(* Floats                                                                  *)
(***************************************************************************)
NaN == <<>>
F(v) == <<v>>
isna(x) == x = NaN
Val(x) == x[1]

\* Python float comparisons: every comparison with NaN is False
gt(a, b) == ~isna(a) /\ ~isna(b) /\ Val(a) > Val(b)
lt(a, b) == ~isna(a) /\ ~isna(b) /\ Val(a) < Val(b)
ge(a, b) == ~isna(a) /\ ~isna(b) /\ Val(a) >= Val(b)
le(a, b) == ~isna(a) /\ ~isna(b) /\ Val(a) <= Val(b)

\* pd.isna([...]) followed by any(...)
any_isna(xs) == \E i \in 1..Len(xs) : isna(xs[i])

\* Series.iloc[idx] for idx = -1, -2 on the tail of a series
iloc(series, idx) == series[Len(series) + 1 + idx]

(***************************************************************************)
(* The indicator values the ta library can deliver at the positions the    *)
(* scorer reads.  Each band indicator takes NaN, its two thresholds, a     *)
(* value on either side of the band and one inside it.                     *)
(***************************************************************************)
RsiValues == {NaN, F(25), F(30), F(50), F(70), F(75)}
BbValues == {NaN, F(10), F(20), F(50), F(80), F(90)}
WrValues == {NaN, F(0 - 90), F(0 - 80), F(0 - 50), F(0 - 20), F(0 - 10)}
MfiValues == {NaN, F(10), F(20), F(50), F(80), F(90)}
MacdValues == {NaN, F(0), F(1), F(2)}
MacdSignalValues == {NaN, F(1)}
SmaValues == {NaN, F(1), F(2), F(3)}
CloseValues == {NaN, F(2)}

\* len(self.data): 1, or 2 standing for every length above 1
DataLengths == {1, 2}

\* The tail of a series: its last two values, or its only value when the
\* data has one bar.
Tails(values, len) ==
    IF len > 1 THEN {<<p, c>> : p \in values, c \in values}
    ELSE {<<c>> : c \in values}

TrendKeys == {"MACD", "MACD_signal", "BB_percent", "SMA_20", "SMA_50"}
MomentumKeys == {"RSI_14", "Williams_R"}
VolatilityKeys == {}
VolumeKeys == {"MFI"}

(***************************************************************************)
(* The bound on the indicator snapshots.  An edge value is a band value on *)
(* or inside its band, a MACD equal to its signal, a price equal to an     *)
(* SMA, or a NaN among the inputs of a rule whose other inputs are not all *)
(* NaN (both SMAs NaN counts as all NaN).  A snapshot holds at most        *)
(* MaxEdgeValues edge values; the other values are NaN for a whole rule or *)
(* lie clearly off the thresholds, in every combination.                   *)
(***************************************************************************)
MaxEdgeValues == 1

BandEdge(v, lo, hi) == IF ~isna(v) /\ lo <= Val(v) /\ Val(v) <= hi THEN 1 ELSE 0

MacdEdge(m, ms) ==
    LET idx == 1..Len(m)
        na == Cardinality({i \in idx : isna(m[i])}) + Cardinality({i \in idx : isna(ms[i])})
        ties == Cardinality({i \in idx : ~isna(m[i]) /\ ~isna(ms[i]) /\ Val(m[i]) = Val(ms[i])})
    IN  IF na = 2 * Len(m) THEN 0 ELSE na + ties

SmaEdge(c, s20, s50) ==
    LET n(x) == IF isna(x) THEN 1 ELSE 0
        tie(x) == IF ~isna(c) /\ ~isna(x) /\ Val(c) = Val(x) THEN 1 ELSE 0
    IN  IF isna(s20) /\ isna(s50) THEN 0
        ELSE n(c) + n(s20) + n(s50) + tie(s20) + tie(s50)

\* dict.update(): the keys of new replace or extend those of old
update(old, new) ==
    [k \in DOMAIN old \cup DOMAIN new |-> IF k \in DOMAIN new THEN new[k] ELSE old[k]]

AllFamilies == {"trend", "momentum", "volatility", "volume"}

\* The keys each calculate_* method writes (those the scorer reads, and ATR
\* for the volatility family, which the scorer never reads).
KeysOf(fams) ==
    (IF "trend" \in fams THEN TrendKeys ELSE {})
    \cup (IF "momentum" \in fams THEN MomentumKeys ELSE {})
    \cup (IF "volatility" \in fams THEN VolatilityKeys ELSE {})
    \cup (IF "volume" \in fams THEN VolumeKeys ELSE {})

\* A series that is not in the dict
Absent == <<>>

One(values) == {<<v>> : v \in values}

(***************************************************************************)
(* generate_trading_signals                                                *)
(***************************************************************************)
EmptySignals == [buy |-> <<>>, sell |-> <<>>, neutral |-> <<>>, score |-> 0]

\* A float printed with a fixed number of decimals: its sign, the digits
\* before the point and the decimals after it, as numbers.
Printed(negative, whole, decimals, places) ==
    [negative |-> negative, whole |-> whole, decimals |-> decimals, places |-> places]
abs(v) == IF v < 0 THEN 0 - v ELSE v

\* f"{x:.1f}" for RSI, Williams %R and MFI (lines 221-227, 273-286), whose
\* values are whole numbers here: one decimal, which is 0; NaN prints as "nan"
format_1f(x) == IF isna(x) THEN "nan" ELSE Printed(Val(x) < 0, abs(Val(x)), 0, 1)

\* f"{bb_percent:.2f}" (lines 247, 250) of a value held in hundredths
format_2f(x) ==
    IF isna(x) THEN "nan"
    ELSE Printed(Val(x) < 0, abs(Val(x)) \div 100, abs(Val(x)) % 100, 2)

\* A label: the text of the f-string and the number printed in it (<<>> if
\* none).  The texts stand for the strings of the source:
\*   RSI_oversold "RSI超卖", RSI_overbought "RSI超买", RSI_normal "RSI正常",
\*   MACD_golden_cross "MACD金叉", MACD_dead_cross "MACD死叉",
\*   BB_high "布林带高位", BB_low "布林带低位",
\*   price_above_SMAs "价格高于主要均线", price_below_SMAs "价格低于主要均线",
\*   WR_overbought "Williams %R超买", WR_oversold "Williams %R超卖",
\*   MFI_overbought "MFI超买", MFI_oversold "MFI超卖".
Label(text, shown) == [text |-> text, shown |-> shown]

append_buy(s, label, weight) ==
    [s EXCEPT !.buy = Append(@, label), !.score = @ + weight]

\* A sell entry whose weight is added instead of subtracted
append_sell_adds(s, label, weight) ==
    [s EXCEPT !.sell = Append(@, label), !.score = @ + weight]

append_sell(s, label, weight) ==
    [s EXCEPT !.sell = Append(@, label), !.score = @ - weight]

append_neutral(s, label) == [s EXCEPT !.neutral = Append(@, label)]

\* The RSI rule with its thresholds inside the buy and sell ranges
rsi_rule_inclusive(s, rsi) ==
    IF isna(rsi) THEN s
    ELSE IF le(rsi, F(30)) THEN append_buy(s, Label("RSI_oversold", format_1f(rsi)), 20)
    ELSE IF ge(rsi, F(70)) THEN append_sell(s, Label("RSI_overbought", format_1f(rsi)), 20)
    ELSE append_neutral(s, Label("RSI_normal", format_1f(rsi)))

\* The RSI rule without its pd.isna test
rsi_rule_no_isna(s, rsi) ==
    IF lt(rsi, F(30)) THEN append_buy(s, Label("RSI_oversold", format_1f(rsi)), 20)
    ELSE IF gt(rsi, F(70)) THEN append_sell(s, Label("RSI_overbought", format_1f(rsi)), 20)
    ELSE append_neutral(s, Label("RSI_normal", format_1f(rsi)))

\* The RSI rule with its first comparison turned round
rsi_rule_reversed(s, rsi) ==
    IF isna(rsi) THEN s
    ELSE IF gt(rsi, F(30)) THEN append_buy(s, Label("RSI_oversold", format_1f(rsi)), 20)
    ELSE IF gt(rsi, F(70)) THEN append_sell(s, Label("RSI_overbought", format_1f(rsi)), 20)
    ELSE append_neutral(s, Label("RSI_normal", format_1f(rsi)))

\* lines 218-227
rsi_rule(s, rsi) ==
    IF isna(rsi) THEN s
    ELSE IF lt(rsi, F(30)) THEN append_buy(s, Label("RSI_oversold", format_1f(rsi)), 20)
    ELSE IF gt(rsi, F(70)) THEN append_sell(s, Label("RSI_overbought", format_1f(rsi)), 20)
    ELSE append_neutral(s, Label("RSI_normal", format_1f(rsi)))

\* The MACD rule taking MACD equal to its signal now as a cross
macd_rule_nonstrict(s, macd_current, macd_signal_current, macd_prev, macd_signal_prev) ==
    IF any_isna(<<macd_current, macd_signal_current, macd_prev, macd_signal_prev>>) THEN s
    ELSE IF ge(macd_current, macd_signal_current) /\ le(macd_prev, macd_signal_prev)
         THEN append_buy(s, Label("MACD_golden_cross", NaN), 25)
    ELSE IF le(macd_current, macd_signal_current) /\ ge(macd_prev, macd_signal_prev)
         THEN append_sell(s, Label("MACD_dead_cross", NaN), 25)
    ELSE s

\* The MACD rule deciding a cross from the current bar alone
macd_rule_current_only(s, macd_current, macd_signal_current, macd_prev, macd_signal_prev) ==
    IF any_isna(<<macd_current, macd_signal_current, macd_prev, macd_signal_prev>>) THEN s
    ELSE IF gt(macd_current, macd_signal_current)
         THEN append_buy(s, Label("MACD_golden_cross", NaN), 25)
    ELSE IF lt(macd_current, macd_signal_current)
         THEN append_sell(s, Label("MACD_dead_cross", NaN), 25)
    ELSE s

\* lines 235-241
macd_rule(s, macd_current, macd_signal_current, macd_prev, macd_signal_prev) ==
    IF any_isna(<<macd_current, macd_signal_current, macd_prev, macd_signal_prev>>) THEN s
    ELSE IF gt(macd_current, macd_signal_current) /\ le(macd_prev, macd_signal_prev)
         THEN append_buy(s, Label("MACD_golden_cross", NaN), 25)
    ELSE IF lt(macd_current, macd_signal_current) /\ ge(macd_prev, macd_signal_prev)
         THEN append_sell(s, Label("MACD_dead_cross", NaN), 25)
    ELSE s

\* lines 245-251
bb_rule(s, bb_percent) ==
    IF isna(bb_percent) THEN s
    ELSE IF gt(bb_percent, F(80)) THEN append_sell(s, Label("BB_high", format_2f(bb_percent)), 15)
    ELSE IF lt(bb_percent, F(20)) THEN append_buy(s, Label("BB_low", format_2f(bb_percent)), 15)
    ELSE s

\* lines 258-267
sma_rule(s, close_price, sma_20, sma_50) ==
    IF any_isna(<<close_price, sma_20, sma_50>>) THEN s
    ELSE LET above_sma20 == gt(close_price, sma_20)
             above_sma50 == gt(close_price, sma_50)
         IN IF above_sma20 /\ above_sma50
                THEN append_buy(s, Label("price_above_SMAs", NaN), 15)
            ELSE IF ~above_sma20 /\ ~above_sma50
                THEN append_sell(s, Label("price_below_SMAs", NaN), 15)
            ELSE s

\* The Williams %R rule noting a neutral entry beside its signal
wr_rule_also_neutral(s, wr) ==
    IF isna(wr) THEN s
    ELSE IF gt(wr, F(0 - 20))
         THEN append_neutral(append_sell(s, Label("WR_overbought", format_1f(wr)), 10),
                             Label("WR_overbought", format_1f(wr)))
    ELSE IF lt(wr, F(0 - 80)) THEN append_buy(s, Label("WR_oversold", format_1f(wr)), 10)
    ELSE s

\* lines 271-277
wr_rule(s, wr) ==
    IF isna(wr) THEN s
    ELSE IF gt(wr, F(0 - 20)) THEN append_sell(s, Label("WR_overbought", format_1f(wr)), 10)
    ELSE IF lt(wr, F(0 - 80)) THEN append_buy(s, Label("WR_oversold", format_1f(wr)), 10)
    ELSE s

\* The MFI rule with the weight of the RSI rule
mfi_rule_weight_20(s, mfi) ==
    IF isna(mfi) THEN s
    ELSE IF gt(mfi, F(80)) THEN append_sell(s, Label("MFI_overbought", format_1f(mfi)), 20)
    ELSE IF lt(mfi, F(20)) THEN append_buy(s, Label("MFI_oversold", format_1f(mfi)), 20)
    ELSE s

\* lines 281-287
mfi_rule(s, mfi) ==
    IF isna(mfi) THEN s
    ELSE IF gt(mfi, F(80)) THEN append_sell(s, Label("MFI_overbought", format_1f(mfi)), 10)
    ELSE IF lt(mfi, F(20)) THEN append_buy(s, Label("MFI_oversold", format_1f(mfi)), 10)
    ELSE s

\* line 214
prev_idx(len) == IF len > 1 THEN 0 - 2 ELSE 0 - 1

\* A scorer that keeps its report between calls instead of building it anew
score_signals_on_previous(ind, d) ==
    LET has(k) == k \in DOMAIN ind
        s0 == signals
        s1 == rsi_rule(s0, iloc(ind["RSI_14"], 0 - 1))
        s2 == macd_rule(s1, iloc(ind["MACD"], 0 - 1), iloc(ind["MACD_signal"], 0 - 1),
                        iloc(ind["MACD"], prev_idx(d.len)),
                        iloc(ind["MACD_signal"], prev_idx(d.len)))
        s3 == bb_rule(s2, iloc(ind["BB_percent"], 0 - 1))
        s4 == sma_rule(s3, d.close, iloc(ind["SMA_20"], 0 - 1), iloc(ind["SMA_50"], 0 - 1))
        s5 == wr_rule(s4, iloc(ind["Williams_R"], 0 - 1))
        s6 == mfi_rule(s5, iloc(ind["MFI"], 0 - 1))
    IN  IF ~has("RSI_14") THEN s0
        ELSE IF ~has("MACD") \/ ~has("MACD_signal") THEN s1
        ELSE IF ~has("BB_percent") THEN s2
        ELSE IF ~has("SMA_20") \/ ~has("SMA_50") THEN s3
        ELSE IF ~has("Williams_R") THEN s4
        ELSE IF ~has("MFI") THEN s5
        ELSE s6

\* Lines 210-292 on the indicator dict ind and the data d.  self.indicators[k]
\* raises KeyError for a key that is not there; the one try block around all
\* the rules (lines 216-290) catches it, and the report built so far is returned.
score_signals(ind, d) ==
    LET has(k) == k \in DOMAIN ind
        s0 == EmptySignals
        s1 == rsi_rule(s0, iloc(ind["RSI_14"], 0 - 1))
        s2 == macd_rule(s1, iloc(ind["MACD"], 0 - 1), iloc(ind["MACD_signal"], 0 - 1),
                        iloc(ind["MACD"], prev_idx(d.len)),
                        iloc(ind["MACD_signal"], prev_idx(d.len)))
        s3 == bb_rule(s2, iloc(ind["BB_percent"], 0 - 1))
        s4 == sma_rule(s3, d.close, iloc(ind["SMA_20"], 0 - 1), iloc(ind["SMA_50"], 0 - 1))
        s5 == wr_rule(s4, iloc(ind["Williams_R"], 0 - 1))
        s6 == mfi_rule(s5, iloc(ind["MFI"], 0 - 1))
    IN  IF ~has("RSI_14") THEN s0
        ELSE IF ~has("MACD") \/ ~has("MACD_signal") THEN s1
        ELSE IF ~has("BB_percent") THEN s2
        ELSE IF ~has("SMA_20") \/ ~has("SMA_50") THEN s3
        ELSE IF ~has("Williams_R") THEN s4
        ELSE IF ~has("MFI") THEN s5
        ELSE s6

(***************************************************************************)
(* TechnicalAnalyzer: the operations                                       *)
(***************************************************************************)
NoIndicators == [k \in {} |-> <<>>]

AnalyzerInit ==
    /\ data \in [len : DataLengths, close : CloseValues]
    /\ indicators = NoIndicators
    /\ scorer_pc = "new"
    /\ signals = EmptySignals

\* self.indicators after the calculate_* methods of the families fams have
\* run (indicators.update, lines 64, 98, 137, 175), and, with do_score, the
\* report of lines 210-292 computed from it.  The ta library is a function of
\* self.data, which never changes after construction: computing a family
\* again stores the values already there.
Compute(fams, do_score) ==
    LET ind == indicators
        keys == DOMAIN ind \cup KeysOf(fams)
        opt(k, values) == IF k \in DOMAIN ind THEN {ind[k]}
                          ELSE IF k \in keys THEN values ELSE {Absent}
        new(k) == k \in keys \ DOMAIN ind
        band(k, lo, hi, series) == IF new(k) THEN BandEdge(series[1], lo, hi) ELSE 0
    IN  /\ do_score \/ scorer_pc = "new"
        /\ \E m \in opt("MACD", Tails(MacdValues, data.len)),
              ms \in opt("MACD_signal", Tails(MacdSignalValues, data.len)) :
            LET e1 == IF new("MACD") THEN MacdEdge(m, ms) ELSE 0
            IN  /\ e1 <= MaxEdgeValues
                /\ \E s20 \in opt("SMA_20", One(SmaValues)), s50 \in opt("SMA_50", One(SmaValues)) :
                   LET e2 == e1 + (IF new("SMA_20") THEN SmaEdge(data.close, s20[1], s50[1]) ELSE 0)
                   IN  /\ e2 <= MaxEdgeValues
                       /\ \E bb \in opt("BB_percent", One(BbValues)) :
                          LET e3 == e2 + band("BB_percent", 20, 80, bb)
                          IN  /\ e3 <= MaxEdgeValues
                              /\ \E rsi \in opt("RSI_14", One(RsiValues)) :
                                 LET e4 == e3 + band("RSI_14", 30, 70, rsi)
                                 IN  /\ e4 <= MaxEdgeValues
                                     /\ \E wr \in opt("Williams_R", One(WrValues)) :
                                        LET e5 == e4 + band("Williams_R", 0 - 80, 0 - 20, wr)
                                        IN  /\ e5 <= MaxEdgeValues
                                            /\ \E mfi \in opt("MFI", One(MfiValues)) :
                                               /\ e5 + band("MFI", 20, 80, mfi) <= MaxEdgeValues
                                               /\ indicators' = update(ind,
                                                    [k \in keys |->
                                                       CASE k = "MACD" -> m
                                                         [] k = "MACD_signal" -> ms
                                                         [] k = "SMA_20" -> s20
                                                         [] k = "SMA_50" -> s50
                                                         [] k = "BB_percent" -> bb
                                                         [] k = "RSI_14" -> rsi
                                                         [] k = "Williams_R" -> wr
                                                         [] k = "MFI" -> mfi
                                                         [] OTHER -> <<NaN>>])
                                               /\ IF do_score
                                                    THEN /\ signals' = score_signals(indicators', data)
                                                         /\ scorer_pc' = IF scorer_pc = "edited" THEN "rescored" ELSE "scored"
                                                    ELSE UNCHANGED <<signals, scorer_pc>>
                                               /\ UNCHANGED data
                                               /\ UNCHANGED <<fetchVars, batchVars>>

\* lines 27-65, 67-99, 140-176: one or more of calculate_trend_indicators,
\* calculate_momentum_indicators and calculate_volume_indicators on a new
\* analyzer.  Each only adds its own keys, so the order does not matter.
calculate_families ==
    /\ DOMAIN indicators = {}
    /\ \E fams \in (SUBSET {"trend", "momentum", "volume"}) \ {{}} : Compute(fams, FALSE)

\* lines 178-198
calculate_all_indicators ==
    /\ DOMAIN indicators = {}
    /\ Compute(AllFamilies, FALSE)

\* lines 200-292: an empty self.indicators is filled first (lines 207-208)
generate_trading_signals ==
    /\ scorer_pc \in {"new", "scored", "edited", "rescored"}
    /\ Compute(IF DOMAIN indicators = {} THEN AllFamilies ELSE {}, TRUE)

(***************************************************************************)
(* The fetchers: what a provider can answer                                *)
(***************************************************************************)
MaxRetry == 2
MaxRecords == 2

RetryDelays == {0, 20}

\* A raw field of a candle record: a numeric string, or one int()/float() rejects.
Junk == <<>>
RawRecord(ts, ohlcv) == [ts |-> ts, ohlcv |-> ohlcv]
RawRecords ==
    {RawRecord(<<t>>, "numeric") : t \in 1..MaxRecords}
    \cup {RawRecord(Junk, "numeric"), RawRecord(<<1>>, "junk")}

\* The candle lists a provider can deliver: at most MaxRecords records (the
\* limit asked for), no two for the same candle, in any order.
Payloads ==
    UNION { { p \in [1..n -> RawRecords] :
              \A i, j \in 1..n : (i # j /\ p[i].ts # Junk) => p[i].ts # p[j].ts } :
            n \in 0..MaxRecords }

\* What one HTTP request can end in.
HttpFailures == {"connection_error", "timeout", "http_429", "http_500", "malformed_body"}
Response(kind, payload) == [kind |-> kind, data |-> payload]
BitgetResponses ==
    {Response(k, <<>>) : k \in HttpFailures \cup {"error_code"}}
    \cup {Response("ok", p) : p \in Payloads}
BinanceResponses ==
    {Response(k, <<>>) : k \in HttpFailures} \cup {Response("ok", p) : p \in Payloads}

\* What ticker.history can end in: an exception (with or without "Too Many
\* Requests" in its message) or a frame, which yfinance delivers in date order.
Frames == { [i \in 1..n |-> [timestamp |-> i]] : n \in 0..MaxRecords }
YfinanceResponses ==
    {Response(k, <<>>) : k \in {"connection_error", "http_429"}}
    \cup {Response("ok", f) : f \in Frames}

None == [kind |-> "None", rows |-> <<>>]
DataFrame(rows) == [kind |-> "DataFrame", rows |-> rows]

(***************************************************************************)
(* _convert_bitget_to_ohlcv, _convert_binance_to_ohlcv                     *)
(***************************************************************************)
\* int(kline[0]) and float(kline[1..5]) raise ValueError on a junk field
coercible(kline) == kline.ts # Junk /\ kline.ohlcv = "numeric"

\* lines 317-324, 347-354: one row per record, indexed by its timestamp
to_row(kline) == [timestamp |-> kline.ts[1]]

RECURSIVE insert_row(_, _)
insert_row(row, rows) ==
    IF rows = <<>> THEN <<row>>
    ELSE IF row.timestamp < Head(rows).timestamp THEN <<row>> \o rows
    ELSE <<Head(rows)>> \o insert_row(row, Tail(rows))

\* DataFrame.sort_index()
RECURSIVE sort_index(_)
sort_index(rows) ==
    IF rows = <<>> THEN <<>> ELSE insert_row(Head(rows), sort_index(Tail(rows)))

\* lines 314-332
convert_bitget_to_ohlcv(payload) ==
    sort_index([i \in 1..Len(payload) |-> to_row(payload[i])])

\* lines 345-359: no sort
convert_binance_to_ohlcv(payload) ==
    [i \in 1..Len(payload) |-> to_row(payload[i])]

(***************************************************************************)
(* One iteration of a provider loop: the outcome of the request            *)
(***************************************************************************)
\* class: the outcome in the terms of the error taxonomy; exc: the exception
\* raised inside the try block ("none" if none); rate: its message holds "429"
\* (or "rate limit", "too many requests"); df: the frame returned on success;
\* records: the raw records it was built from.
Outcome(class, exc, rate, df, records) ==
    [class |-> class, exc |-> exc, rate |-> rate, df |-> df, records |-> records]

\* requests.get, raise_for_status and response.json (lines 66-69, 170-173)
http_failure(resp) ==
    CASE resp.kind = "connection_error" -> Outcome("NetworkError", "ConnectionError", FALSE, None, 0)
      [] resp.kind = "timeout" -> Outcome("NetworkError", "Timeout", FALSE, None, 0)
      [] resp.kind = "http_429" -> Outcome("RateLimited", "HTTPError", TRUE, None, 0)
      [] resp.kind = "http_500" -> Outcome("NetworkError", "HTTPError", FALSE, None, 0)
      [] OTHER -> Outcome("MalformedResponse", "JSONDecodeError", FALSE, None, 0)

\* The handler narrowed to the exceptions of the requests library
caught_requests_only(exc) == exc \in {"ConnectionError", "Timeout", "HTTPError"}

\* "except Exception" (lines 79, 183; 62 of data_fetcher.py): every exception
\* the try block can raise is an Exception
caught(exc) ==
    exc \in {"ConnectionError", "Timeout", "HTTPError", "JSONDecodeError", "ValueError"}

\* A conversion that drops the records it cannot coerce
bitget_outcome_skips_bad(resp) ==
    IF resp.kind \in HttpFailures THEN http_failure(resp)
    ELSE IF resp.kind = "ok" /\ Len(resp.data) > 0
         THEN Outcome("Success", "none", FALSE,
                      DataFrame(convert_bitget_to_ohlcv(SelectSeq(resp.data, coercible))),
                      Len(resp.data))
         ELSE Outcome("EmptyResponse", "none", FALSE, None, 0)

\* lines 66-77 of crypto_data_fetcher.py
bitget_outcome(resp) ==
    IF resp.kind \in HttpFailures THEN http_failure(resp)
    ELSE IF resp.kind = "ok" /\ Len(resp.data) > 0
         THEN IF \A i \in 1..Len(resp.data) : coercible(resp.data[i])
                 THEN Outcome("Success", "none", FALSE,
                              DataFrame(convert_bitget_to_ohlcv(resp.data)), Len(resp.data))
                 ELSE Outcome("MalformedResponse", "ValueError", FALSE, None, 0)
         ELSE Outcome("EmptyResponse", "none", FALSE, None, 0)

\* lines 170-181 of crypto_data_fetcher.py
binance_outcome(resp) ==
    IF resp.kind \in HttpFailures THEN http_failure(resp)
    ELSE IF Len(resp.data) > 0
         THEN IF \A i \in 1..Len(resp.data) : coercible(resp.data[i])
                 THEN Outcome("Success", "none", FALSE,
                              DataFrame(convert_binance_to_ohlcv(resp.data)), Len(resp.data))
                 ELSE Outcome("MalformedResponse", "ValueError", FALSE, None, 0)
         ELSE Outcome("EmptyResponse", "none", FALSE, None, 0)

\* What one request to each provider can come to
BitgetOutcomes == {bitget_outcome(resp) : resp \in BitgetResponses}
BinanceOutcomes == {binance_outcome(resp) : resp \in BinanceResponses}

\* lines 52-60 of data_fetcher.py
yfinance_outcome(resp) ==
    IF resp.kind # "ok" THEN http_failure(resp)
    ELSE IF Len(resp.data) > 0
         THEN Outcome("Success", "none", FALSE, DataFrame(resp.data), Len(resp.data))
         ELSE Outcome("EmptyResponse", "none", FALSE, None, 0)

YfinanceOutcomes == {yfinance_outcome(resp) : resp \in YfinanceResponses}

(***************************************************************************)
(* The sleeps of one iteration, in tenths of a second.  random.uniform(a,  *)
(* b) is drawn from its two ends.                                          *)
(***************************************************************************)
uniform(a, b) == {a, b}

Max(a, b) == IF a >= b THEN a ELSE b

NoSleep == <<>>

\* A pre-delay before every request, the first one included
pre_delays_always(k, lo, hi) == {<<d>> : d \in uniform(lo, hi)}

\* lines 54-56, 159-161 (47-50 of data_fetcher.py): the sleeps before the request
pre_delays(k, lo, hi) == IF k > 0 THEN {<<d>> : d \in uniform(lo, hi)} ELSE {NoSleep}

\* The backoff without the test of line 83: a sleep after the last attempt too
backoffs_after_last(o, k, count, base, jitter, floor) ==
    IF o.exc # "none"
        THEN IF o.rate
                THEN {<<Max(base * (2 ^ k) + j, f)>> : j \in jitter, f \in floor}
                ELSE {<<base * (2 ^ k) + j>> : j \in jitter}
        ELSE {NoSleep}

\* The backoff without the exponential growth of line 85
backoffs_constant(o, k, count, base, jitter, floor) ==
    IF o.exc # "none" /\ k < count - 1
        THEN IF o.rate
                THEN {<<Max(base + j, f)>> : j \in jitter, f \in floor}
                ELSE {<<base + j>> : j \in jitter}
        ELSE {NoSleep}

\* The backoff without the rate-limit floor of lines 89-91
backoffs_no_floor(o, k, count, base, jitter, floor) ==
    IF o.exc # "none" /\ k < count - 1
        THEN {<<base * (2 ^ k) + j>> : j \in jitter}
        ELSE {NoSleep}

\* lines 83-93, 187-197 (66-76 of data_fetcher.py): the sleeps after a failed
\* iteration k, jitter and the rate-limit floor drawn from their ranges
backoffs(o, k, count, base, jitter, floor) ==
    IF o.exc # "none" /\ k < count - 1
        THEN IF o.rate
                THEN {<<Max(base * (2 ^ k) + j, f)>> : j \in jitter, f \in floor}
                ELSE {<<base * (2 ^ k) + j>> : j \in jitter}
        ELSE {NoSleep}

Sleeps(pre, backoff) == [pre |-> pre, backoff |-> backoff]

\* lines 125-130
granularity_map ==
    [g \in {"1min", "5min", "15min", "30min", "1h", "4h", "6h", "12h", "1day", "1week"} |->
        CASE g = "1min" -> "1m" [] g = "5min" -> "5m" [] g = "15min" -> "15m"
          [] g = "30min" -> "30m" [] g = "1h" -> "1h" [] g = "4h" -> "4h"
          [] g = "6h" -> "6h" [] g = "12h" -> "12h" [] g = "1day" -> "1d"
          [] g = "1week" -> "1w"]

binance_interval(g) == IF g \in DOMAIN granularity_map THEN granularity_map[g] ELSE "1d"

\* The granularities a caller passes
Granularities == {"1day", "1h", "1hour"}

\* A request as the log keeps it; in_convert: the attempt ended in an exception
\* raised by _convert_*_to_ohlcv (lines 73, 177) rather than by the request
Request(provider, interval, o) ==
    [provider |-> provider, interval |-> interval, class |-> o.class, records |-> o.records,
     in_convert |-> o.exc = "ValueError"]

(***************************************************************************)
(* The fetchers: the operations                                            *)
(***************************************************************************)
FetchIdle ==
    /\ retry_count = 0 /\ retry_delay = 0 /\ pc = "idle" /\ attempt = 0
    /\ granularity = "1day" /\ log = <<>> /\ slept = Sleeps(NoSleep, NoSleep)
    /\ result = None

FetchInit ==
    /\ retry_count \in 0..MaxRetry
    /\ retry_delay \in RetryDelays
    /\ pc = "idle"
    /\ attempt = 0
    /\ granularity = "1day"
    /\ log = <<>>
    /\ slept = Sleeps(NoSleep, NoSleep)
    /\ result = None

\* An iteration whose success does not leave the loop
iteration_no_return(provider, interval, o, pre, backoff) ==
    /\ log' = Append(log, Request(provider, interval, o))
    /\ result' = o.df
    /\ attempt' = attempt + 1
    /\ slept' = Sleeps(pre, backoff)
    /\ UNCHANGED <<pc, retry_count, retry_delay, granularity>>
    /\ UNCHANGED <<analyzerVars, batchVars>>

\* An iteration whose failure does not advance the loop
iteration_keeps_attempt(provider, interval, o, pre, backoff) ==
    /\ log' = Append(log, Request(provider, interval, o))
    /\ IF o.class = "Success"
          THEN /\ result' = o.df
               /\ pc' = "done"
               /\ slept' = Sleeps(pre, NoSleep)
               /\ attempt' = attempt
          ELSE IF o.exc # "none" /\ ~caught(o.exc)
          THEN /\ pc' = "raised"
               /\ slept' = Sleeps(pre, NoSleep)
               /\ UNCHANGED <<result, attempt>>
          ELSE /\ attempt' = attempt
               /\ slept' = Sleeps(pre, backoff)
               /\ UNCHANGED <<result, pc>>
    /\ UNCHANGED <<retry_count, retry_delay, granularity>>
    /\ UNCHANGED <<analyzerVars, batchVars>>

\* One iteration of a provider loop: the pre-delay, the request and its
\* outcome o, the backoff.  A success returns from the loop and from the fetch
\* (lines 75, 117-119, 134-136; 58 of data_fetcher.py); an exception that no
\* except clause catches leaves the fetch ("raised").
iteration(provider, interval, o, pre, backoff) ==
    /\ log' = Append(log, Request(provider, interval, o))
    /\ IF o.class = "Success"
          THEN /\ result' = o.df
               /\ pc' = "done"
               /\ slept' = Sleeps(pre, NoSleep)
               /\ attempt' = attempt
          ELSE IF o.exc # "none" /\ ~caught(o.exc)
          THEN /\ pc' = "raised"
               /\ slept' = Sleeps(pre, NoSleep)
               /\ UNCHANGED <<result, attempt>>
          ELSE /\ attempt' = attempt + 1
               /\ slept' = Sleeps(pre, backoff)
               /\ UNCHANGED <<result, pc>>
    /\ UNCHANGED <<retry_count, retry_delay, granularity>>
    /\ UNCHANGED <<analyzerVars, batchVars>>

\* lines 111-115
get_crypto_data ==
    /\ pc = "idle"
    /\ \E g \in Granularities : granularity' = g
    /\ pc' = "bitget"
    /\ attempt' = 0
    /\ UNCHANGED <<retry_count, retry_delay, log, slept, result>>
    /\ UNCHANGED <<analyzerVars, batchVars>>

\* lines 49-93
get_crypto_data_bitget ==
    /\ pc = "bitget"
    /\ attempt < retry_count
    /\ \E o \in BitgetOutcomes :
              \E pre \in pre_delays(attempt, 10, 30),
                 backoff \in backoffs(o, attempt, retry_count, retry_delay,
                                      uniform(10, 30), {100 + j : j \in uniform(50, 150)}) :
                 iteration("bitget", granularity, o, pre, backoff)

\* A failover that carries the Bitget loop's counter over to Binance
bitget_failed_keeps_attempt ==
    /\ pc = "bitget"
    /\ attempt = retry_count
    /\ pc' = "binance"
    /\ UNCHANGED <<retry_count, retry_delay, granularity, attempt, log, slept, result>>
    /\ UNCHANGED <<analyzerVars, batchVars>>

\* lines 95-96 and 117-132: the Bitget loop ran out, Binance is next
bitget_failed ==
    /\ pc = "bitget"
    /\ attempt = retry_count
    /\ pc' = "binance"
    /\ attempt' = 0
    /\ UNCHANGED <<retry_count, retry_delay, granularity, log, slept, result>>
    /\ UNCHANGED <<analyzerVars, batchVars>>

\* lines 154-197
get_crypto_data_binance ==
    /\ pc = "binance"
    /\ attempt < retry_count
    /\ \E o \in BinanceOutcomes :
              \E pre \in pre_delays(attempt, 5, 20),
                 backoff \in backoffs(o, attempt, retry_count, retry_delay,
                                      uniform(10, 20), {50 + j : j \in uniform(20, 80)}) :
                 iteration("binance", binance_interval(granularity), o, pre, backoff)

\* lines 199-200 and 134-139: the Binance loop ran out
binance_failed ==
    /\ pc = "binance"
    /\ attempt = retry_count
    /\ pc' = "done"
    /\ result' = None
    /\ UNCHANGED <<retry_count, retry_delay, granularity, attempt, log, slept>>
    /\ UNCHANGED <<analyzerVars, batchVars>>

\* data_fetcher.py, line 43: get_stock_data is entered
get_stock_data ==
    /\ pc = "idle"
    /\ pc' = "yfinance"
    /\ attempt' = 0
    /\ UNCHANGED <<retry_count, retry_delay, granularity, log, slept, result>>
    /\ UNCHANGED <<analyzerVars, batchVars>>

\* data_fetcher.py, lines 43-76
get_stock_data_attempt ==
    /\ pc = "yfinance"
    /\ attempt < retry_count
    /\ \E o \in YfinanceOutcomes :
              \E pre \in pre_delays(attempt, 5, 20),
                 backoff \in backoffs(o, attempt, retry_count, retry_delay,
                                      uniform(10, 30), {100 + j : j \in uniform(50, 150)}) :
                 iteration("yfinance", "1d", o, pre, backoff)

\* data_fetcher.py, lines 78-79
get_stock_data_failed ==
    /\ pc = "yfinance"
    /\ attempt = retry_count
    /\ pc' = "done"
    /\ result' = None
    /\ UNCHANGED <<retry_count, retry_delay, granularity, attempt, log, slept>>
    /\ UNCHANGED <<analyzerVars, batchVars>>

(***************************************************************************)
(* get_multiple_cryptos, get_multiple_stocks                               *)
(***************************************************************************)
MaxSymbols == 2

Symbols == {"BTCUSDT", "ETHUSDT"}
SymbolLists == UNION {[1..n -> Symbols] : n \in 0..MaxSymbols}

NoResults == [k \in {} |-> None]

BatchIdle ==
    /\ symbols = <<>> /\ batch_i = 0 /\ results = NoResults /\ printed = <<>>

BatchInit ==
    /\ symbols \in SymbolLists
    /\ batch_i = 0
    /\ results = NoResults
    /\ printed = <<>>

\* What get_crypto_data and get_stock_data can return
CryptoReturns == {o.df : o \in BitgetOutcomes \cup BinanceOutcomes}
StockReturns == {o.df : o \in YfinanceOutcomes}

\* A call of the single-symbol fetch and what it returned
Call(symbol, returned) == [symbol |-> symbol, returned |-> returned]

\* A printed line: its kind and the symbol, delay or counts it shows
Line(kind, shown) == [kind |-> kind, shown |-> shown]

\* lines 277-280 (132-135 of data_fetcher.py)
get_multiple_cryptos ==
    /\ pc = "idle"
    /\ pc' = "batch_cryptos"
    /\ printed' = <<Line("start", Len(symbols))>>
    /\ UNCHANGED <<symbols, batch_i, results>>
    /\ UNCHANGED <<retry_count, retry_delay, attempt, granularity, log, slept, result>>
    /\ UNCHANGED analyzerVars

get_multiple_stocks ==
    /\ pc = "idle"
    /\ pc' = "batch_stocks"
    /\ printed' = <<Line("start", Len(symbols))>>
    /\ UNCHANGED <<symbols, batch_i, results>>
    /\ UNCHANGED <<retry_count, retry_delay, attempt, granularity, log, slept, result>>
    /\ UNCHANGED analyzerVars

\* The loop body without the test of line 287: every return is stored
batch_iteration_stores_all(fetched, delays) ==
    LET i == batch_i + 1
        symbol == symbols[i]
        outcome == IF fetched # None THEN Line("success", symbol) ELSE Line("failed", symbol)
    IN  /\ batch_i < Len(symbols)
        /\ batch_i' = i
        /\ log' = Append(log, Call(symbol, fetched))
        /\ results' = IF TRUE
                         THEN [k \in DOMAIN results \cup {symbol} |->
                                  IF k = symbol THEN fetched ELSE results[k]]
                         ELSE results
        /\ IF i < Len(symbols)
              THEN \E delay \in delays :
                      /\ printed' = printed \o <<Line("processing", symbol), outcome,
                                                  Line("waiting", delay)>>
                      /\ slept' = Sleeps(NoSleep, <<delay>>)
              ELSE /\ printed' = printed \o <<Line("processing", symbol), outcome>>
                   /\ slept' = slept
        /\ UNCHANGED <<symbols, retry_count, retry_delay, pc, attempt, granularity, result>>
        /\ UNCHANGED analyzerVars

\* The loop body without the test of line 294: a delay after every symbol
batch_iteration_always_waits(fetched, delays) ==
    LET i == batch_i + 1
        symbol == symbols[i]
        outcome == IF fetched # None THEN Line("success", symbol) ELSE Line("failed", symbol)
    IN  /\ batch_i < Len(symbols)
        /\ batch_i' = i
        /\ log' = Append(log, Call(symbol, fetched))
        /\ results' = IF fetched # None
                         THEN [k \in DOMAIN results \cup {symbol} |->
                                  IF k = symbol THEN fetched ELSE results[k]]
                         ELSE results
        /\ IF i <= Len(symbols)
              THEN \E delay \in delays :
                      /\ printed' = printed \o <<Line("processing", symbol), outcome,
                                                  Line("waiting", delay)>>
                      /\ slept' = Sleeps(NoSleep, <<delay>>)
              ELSE /\ printed' = printed \o <<Line("processing", symbol), outcome>>
                   /\ slept' = slept
        /\ UNCHANGED <<symbols, retry_count, retry_delay, pc, attempt, granularity, result>>
        /\ UNCHANGED analyzerVars

\* One pass of the loop body for the next symbol, the fetch returning data
\* and the inter-symbol sleep lasting one of delays
batch_iteration(fetched, delays) ==
    LET i == batch_i + 1
        symbol == symbols[i]
        outcome == IF fetched # None THEN Line("success", symbol) ELSE Line("failed", symbol)
    IN  /\ batch_i < Len(symbols)
        /\ batch_i' = i
        /\ log' = Append(log, Call(symbol, fetched))
        /\ results' = IF fetched # None
                         THEN [k \in DOMAIN results \cup {symbol} |->
                                  IF k = symbol THEN fetched ELSE results[k]]
                         ELSE results
        /\ IF i < Len(symbols)
              THEN \E delay \in delays :
                      /\ printed' = printed \o <<Line("processing", symbol), outcome,
                                                  Line("waiting", delay)>>
                      /\ slept' = Sleeps(NoSleep, <<delay>>)
              ELSE /\ printed' = printed \o <<Line("processing", symbol), outcome>>
                   /\ slept' = slept
        /\ UNCHANGED <<symbols, retry_count, retry_delay, pc, attempt, granularity, result>>
        /\ UNCHANGED analyzerVars

\* lines 282-298
get_multiple_cryptos_symbol ==
    /\ pc = "batch_cryptos"
    /\ \E fetched \in CryptoReturns : batch_iteration(fetched, uniform(30, 60))

\* data_fetcher.py, lines 137-150
get_multiple_stocks_symbol ==
    /\ pc = "batch_stocks"
    /\ \E fetched \in StockReturns : batch_iteration(fetched, uniform(20, 50))

\* lines 300-301 (152-153 of data_fetcher.py): the summary line and the return
batch_return ==
    /\ pc \in {"batch_cryptos", "batch_stocks"}
    /\ batch_i = Len(symbols)
    /\ printed' = Append(printed, Line("summary", <<Cardinality(DOMAIN results), Len(symbols)>>))
    /\ pc' = "batch_done"
    /\ UNCHANGED <<symbols, batch_i, results>>
    /\ UNCHANGED <<retry_count, retry_delay, attempt, granularity, log, slept, result>>
    /\ UNCHANGED analyzerVars

AnalyzerIdle ==
    /\ data = [len |-> 1, close |-> NaN]
    /\ indicators = NoIndicators
    /\ scorer_pc = "new"
    /\ signals = EmptySignals

Init == FetchInit /\ AnalyzerIdle /\ BatchIdle
Next ==
    \/ get_crypto_data
    \/ get_crypto_data_bitget
    \/ bitget_failed
    \/ get_crypto_data_binance
    \/ binance_failed
    \/ get_stock_data
    \/ get_stock_data_attempt
    \/ get_stock_data_failed
Spec == Init /\ [][Next]_vars

\* get_stock_data alone, with a longer retry budget
MaxStockRetry == 3

StockInit ==
    /\ retry_count \in 0..MaxStockRetry
    /\ retry_delay \in RetryDelays
    /\ pc = "idle"
    /\ attempt = 0
    /\ granularity = "1day"
    /\ log = <<>>
    /\ slept = Sleeps(NoSleep, NoSleep)
    /\ result = None
    /\ AnalyzerIdle
    /\ BatchIdle
StockNext ==
    \/ get_stock_data
    \/ get_stock_data_attempt
    \/ get_stock_data_failed
SpecStock == StockInit /\ [][StockNext]_vars

BatchSpecInit == FetchIdle /\ AnalyzerIdle /\ BatchInit
BatchNext ==
    \/ get_multiple_cryptos
    \/ get_multiple_cryptos_symbol
    \/ get_multiple_stocks
    \/ get_multiple_stocks_symbol
    \/ batch_return
SpecBatch == BatchSpecInit /\ [][BatchNext]_vars

SignalsInit == AnalyzerInit /\ FetchIdle /\ BatchIdle
SignalsNext ==
    \/ calculate_families
    \/ calculate_all_indicators
    \/ generate_trading_signals
SpecSignals == SignalsInit /\ [][SignalsNext]_vars

(***************************************************************************)
(* The fetchers: properties                                                *)
(***************************************************************************)
\* The positions in the log of the requests made to a provider
Requests(provider) == {i \in 1..Len(log) : log[i].provider = provider}
Classes == {log[i].class : i \in 1..Len(log)}
PrimarySoftExhausted ==
    /\ Cardinality(Requests("bitget")) = retry_count
    /\ \A j \in Requests("bitget") : log[j].class \in {"NetworkError", "EmptyResponse"}

\* C1: get_crypto_data asks Bitget first and Binance only after Bitget has
\* used all its attempts without data; data from Bitget is returned at once,
\* and Binance is then never contacted.
C1_ProviderOrder ==
    /\ \A i \in Requests("binance") :
          /\ Cardinality(Requests("bitget")) = retry_count
          /\ \A j \in Requests("bitget") : j < i /\ log[j].class # "Success"
    /\ \A j \in Requests("bitget") :
          log[j].class = "Success" =>
              /\ j = Len(log)
              /\ pc = "done"
              /\ result.kind = "DataFrame"
              /\ Len(result.rows) = log[j].records
              /\ Requests("binance") = {}

\* C1 witness: Binance is contacted after Bitget failed twice
C1_Witness ==
    /\ retry_count = 2
    /\ Len(log) = 3
    /\ log[3].provider = "binance"
    /\ log[1].provider = "bitget" /\ log[2].provider = "bitget"

\* C2: no provider gets more than retry_count requests in one fetch; Binance
\* starts with its own counter at 0; once Bitget has used its budget on
\* network errors and empty responses, the fetch ends either with nothing
\* after retry_count requests to Binance, or with the data of the first
\* successful Binance request, which is the last request made.
C2_RetryBudget ==
    /\ \A p \in {"bitget", "binance", "yfinance"} : Cardinality(Requests(p)) <= retry_count
    /\ pc = "binance" => attempt = Cardinality(Requests("binance"))
    /\ (pc = "done" /\ PrimarySoftExhausted) =>
          \/ /\ result = None
             /\ Cardinality(Requests("binance")) = retry_count
             /\ "Success" \notin Classes
          \/ /\ result.kind = "DataFrame"
             /\ log[Len(log)].provider = "binance"
             /\ \A i \in 1..Len(log) : log[i].class = "Success" <=> i = Len(log)

\* C2 witness: Bitget used both attempts, Binance succeeded on its second
C2_Witness ==
    /\ pc = "done"
    /\ retry_count = 2
    /\ PrimarySoftExhausted
    /\ Len(log) = 4
    /\ log[3].class = "RateLimited"
    /\ log[4].class = "Success"

\* C3: a fetch never lets an exception out; it ends with a frame or with
\* None, and with None exactly when no request of it succeeded.
C3_NeverRaises ==
    /\ pc # "raised"
    /\ pc = "done" =>
          /\ result = None <=> "Success" \notin Classes
          /\ result # None => (result.kind = "DataFrame" /\ result.rows # <<>>)

\* C3 witness: a fetch that met all four kinds of failure ended with None
C3_Witness ==
    /\ pc = "done"
    /\ result = None
    /\ Classes = {"NetworkError", "EmptyResponse", "MalformedResponse", "RateLimited"}

\* C4: a successful crypto fetch of N valid records gives N bars whose
\* timestamps are strictly increasing, whichever provider answered and in
\* whatever order it delivered the records.
C4_SortedSeries ==
    (pc = "done" /\ result # None /\ log[Len(log)].provider \in {"bitget", "binance"}) =>
        /\ Len(result.rows) = log[Len(log)].records
        /\ \A i, j \in 1..Len(result.rows) :
              i < j => result.rows[i].timestamp < result.rows[j].timestamp

(***************************************************************************)
(* generate_trading_signals: properties                                    *)
(***************************************************************************)
RsiTexts == {"RSI_oversold", "RSI_overbought", "RSI_normal"}
MacdTexts == {"MACD_golden_cross", "MACD_dead_cross"}
BbTexts == {"BB_high", "BB_low"}
SmaTexts == {"price_above_SMAs", "price_below_SMAs"}
WrTexts == {"WR_overbought", "WR_oversold"}
MfiTexts == {"MFI_overbought", "MFI_oversold"}

\* The weight the rule table gives to a signal
Weight(text) ==
    CASE text \in {"RSI_oversold", "RSI_overbought"} -> 20
      [] text \in MacdTexts -> 25
      [] text \in BbTexts \cup SmaTexts -> 15
      [] text \in WrTexts \cup MfiTexts -> 10
      [] OTHER -> 0

\* The weights of the entries of a list whose text is in texts, summed
RECURSIVE SumWeights(_, _)
SumWeights(list, texts) ==
    IF list = <<>> THEN 0
    ELSE (IF Head(list).text \in texts THEN Weight(Head(list).text) ELSE 0)
         + SumWeights(Tail(list), texts)

AllTexts == RsiTexts \cup MacdTexts \cup BbTexts \cup SmaTexts \cup WrTexts \cup MfiTexts
Texts(list) == {list[i].text : i \in 1..Len(list)}

\* How many entries of the report come from the rule with these texts
EntriesOf(texts) ==
    Cardinality({i \in 1..Len(signals.buy) : signals.buy[i].text \in texts})
    + Cardinality({i \in 1..Len(signals.sell) : signals.sell[i].text \in texts})
    + Cardinality({i \in 1..Len(signals.neutral) : signals.neutral[i].text \in texts})

\* What the rule with these texts added to the score: the score less the
\* weights of the entries of the other rules
ScoreOf(texts) ==
    signals.score - (SumWeights(signals.buy, AllTexts \ texts)
                     - SumWeights(signals.sell, AllTexts \ texts))

Scored == scorer_pc \in {"scored", "rescored"}
Has(keys) == keys \subseteq DOMAIN indicators
Last(k) == iloc(indicators[k], 0 - 1)
Prev(k) == iloc(indicators[k], prev_idx(data.len))

\* C5: the score is the sum of the weights of the buy entries less the sum
\* of the weights of the sell entries of the report; neutral entries add
\* nothing and nothing is clamped.
C5_ScoreIsSum ==
    signals.score = SumWeights(signals.buy, AllTexts) - SumWeights(signals.sell, AllTexts)

\* C5 witness: a report with buy, sell and neutral entries
C5_Witness ==
    /\ Scored
    /\ Len(signals.buy) >= 2
    /\ Len(signals.sell) >= 2
    /\ Len(signals.neutral) = 1

\* C6: a defined RSI_14 at the last index gives exactly one RSI entry: a buy
\* of weight 20 below 30, a sell of weight 20 above 70, and a neutral entry
\* that leaves the score alone from 30 to 70, both ends included.
C6_RsiRule ==
    (Scored /\ Has({"RSI_14"}) /\ ~isna(Last("RSI_14"))) =>
        LET rsi == Val(Last("RSI_14"))
        IN  /\ EntriesOf(RsiTexts) = 1
            /\ rsi < 30 => ("RSI_oversold" \in Texts(signals.buy) /\ ScoreOf(RsiTexts) = 20)
            /\ rsi > 70 => ("RSI_overbought" \in Texts(signals.sell) /\ ScoreOf(RsiTexts) = 0 - 20)
            /\ (30 <= rsi /\ rsi <= 70) =>
                  ("RSI_normal" \in Texts(signals.neutral) /\ ScoreOf(RsiTexts) = 0)

\* C6 witness: RSI exactly 70 was scored as neutral
C6_Witness ==
    /\ Scored
    /\ Has({"RSI_14"})
    /\ Last("RSI_14") = F(70)
    /\ "RSI_normal" \in Texts(signals.neutral)

\* C7: with MACD and its signal defined at the last two indices, the golden
\* cross is in the buy list with weight 25 exactly when MACD is above the
\* signal now and was at or below it before, the dead cross is in the sell
\* list with weight 25 exactly when it is below now and was at or above
\* before, and the rule adds nothing otherwise.
C7_MacdRule ==
    (Scored /\ data.len > 1 /\ Has({"MACD", "MACD_signal"})
       /\ ~any_isna(<<Last("MACD"), Last("MACD_signal"), Prev("MACD"), Prev("MACD_signal")>>)) =>
        LET golden == /\ Val(Last("MACD")) > Val(Last("MACD_signal"))
                      /\ Val(Prev("MACD")) <= Val(Prev("MACD_signal"))
            dead == /\ Val(Last("MACD")) < Val(Last("MACD_signal"))
                    /\ Val(Prev("MACD")) >= Val(Prev("MACD_signal"))
        IN  /\ "MACD_golden_cross" \in Texts(signals.buy) <=> golden
            /\ "MACD_dead_cross" \in Texts(signals.sell) <=> dead
            /\ EntriesOf(MacdTexts) = (IF golden \/ dead THEN 1 ELSE 0)
            /\ ScoreOf(MacdTexts) = (IF golden THEN 25 ELSE IF dead THEN 0 - 25 ELSE 0)

\* C8: with the close, SMA_20 and SMA_50 defined, the buy "price above the
\* SMAs" of weight 15 is emitted exactly when the close is above both, the
\* sell "price below the SMAs" of weight 15 exactly when the close is below
\* both, and nothing when it lies between them or equals one of them.
C8_SmaRule ==
    (Scored /\ Has({"SMA_20", "SMA_50"})
       /\ ~any_isna(<<data.close, Last("SMA_20"), Last("SMA_50")>>)) =>
        LET close == Val(data.close)
            above == close > Val(Last("SMA_20")) /\ close > Val(Last("SMA_50"))
            below == close < Val(Last("SMA_20")) /\ close < Val(Last("SMA_50"))
        IN  /\ "price_above_SMAs" \in Texts(signals.buy) <=> above
            /\ "price_below_SMAs" \in Texts(signals.sell) <=> below
            /\ EntriesOf(SmaTexts) = (IF above \/ below THEN 1 ELSE 0)
            /\ ScoreOf(SmaTexts) = (IF above THEN 15 ELSE IF below THEN 0 - 15 ELSE 0)

\* What a band rule must have done for its value v: a sell of the given
\* weight strictly above hi, a buy strictly below lo, nothing from lo to hi.
BandRuleHolds(v, lo, hi, weight, sell_text, buy_text) ==
    /\ sell_text \in Texts(signals.sell) <=> v > hi
    /\ buy_text \in Texts(signals.buy) <=> v < lo
    /\ EntriesOf({sell_text, buy_text}) = (IF v > hi \/ v < lo THEN 1 ELSE 0)
    /\ ScoreOf({sell_text, buy_text}) =
          (IF v > hi THEN 0 - weight ELSE IF v < lo THEN weight ELSE 0)

\* C9: each band rule emits a signal exactly when its defined value lies
\* strictly outside its band: Bollinger %b above 0.8 sells and below 0.2 buys
\* with weight 15, Williams %R above -20 sells and below -80 buys with weight
\* 10, MFI above 80 sells and below 20 buys with weight 10; a value on a
\* threshold or inside the band gives nothing.
C9_BandRules ==
    Scored =>
        /\ (Has({"BB_percent"}) /\ ~isna(Last("BB_percent"))) =>
              BandRuleHolds(Val(Last("BB_percent")), 20, 80, 15, "BB_high", "BB_low")
        /\ (Has({"Williams_R"}) /\ ~isna(Last("Williams_R"))) =>
              BandRuleHolds(Val(Last("Williams_R")), 0 - 80, 0 - 20, 10,
                            "WR_overbought", "WR_oversold")
        /\ (Has({"MFI"}) /\ ~isna(Last("MFI"))) =>
              BandRuleHolds(Val(Last("MFI")), 20, 80, 10, "MFI_overbought", "MFI_oversold")

\* The inputs of each rule that are in the dict
RuleKeys ==
    <<{"RSI_14"}, {"MACD", "MACD_signal"}, {"BB_percent"}, {"SMA_20", "SMA_50"},
      {"Williams_R"}, {"MFI"}>>
RuleTexts == <<RsiTexts, MacdTexts, BbTexts, SmaTexts, WrTexts, MfiTexts>>
RuleHasNaN(r) ==
    \/ \E k \in RuleKeys[r] : isna(Last(k)) \/ (r = 2 /\ isna(Prev(k)))
    \/ r = 4 /\ isna(data.close)

\* C10: a rule with a NaN among its inputs adds no entry to buy, sell or
\* neutral and leaves the score alone; when every indicator is NaN the report
\* is empty and its score is 0.
C10_NaNContributesNothing ==
    Scored =>
        /\ \A r \in 1..6 :
              (Has(RuleKeys[r]) /\ RuleHasNaN(r)) =>
                  (EntriesOf(RuleTexts[r]) = 0 /\ ScoreOf(RuleTexts[r]) = 0)
        /\ (\A r \in 1..6 :
                Has(RuleKeys[r]) /\ \A k \in RuleKeys[r] : isna(Last(k)) /\ (r = 2 => isna(Prev(k))))
              => signals = EmptySignals

\* C10 witness: RSI is NaN and one MACD input is NaN while MACD is above
\* its signal, and other rules have put entries in the report
C10_Witness ==
    /\ Scored
    /\ \A r \in 1..6 : Has(RuleKeys[r])
    /\ isna(Last("RSI_14"))
    /\ data.len > 1
    /\ isna(Prev("MACD"))
    /\ Last("MACD") = F(2)
    /\ Len(signals.buy) + Len(signals.sell) >= 3

\* What rule r gives on its own for the values in the dict
RuleAlone(r) ==
    CASE r = 1 -> rsi_rule(EmptySignals, Last("RSI_14"))
      [] r = 2 -> macd_rule(EmptySignals, Last("MACD"), Last("MACD_signal"),
                            Prev("MACD"), Prev("MACD_signal"))
      [] r = 3 -> bb_rule(EmptySignals, Last("BB_percent"))
      [] r = 4 -> sma_rule(EmptySignals, data.close, Last("SMA_20"), Last("SMA_50"))
      [] r = 5 -> wr_rule(EmptySignals, Last("Williams_R"))
      [] OTHER -> mfi_rule(EmptySignals, Last("MFI"))

\* C11: the rules are applied independently: a rule whose indicators are in
\* the dict puts its entry and its weight in the report whether or not the
\* indicators of the other rules are there.
C11_RulesIndependent ==
    Scored =>
        \A r \in 1..6 :
            Has(RuleKeys[r]) =>
                LET alone == RuleAlone(r)
                IN  /\ EntriesOf(RuleTexts[r]) =
                          Len(alone.buy) + Len(alone.sell) + Len(alone.neutral)
                    /\ ScoreOf(RuleTexts[r]) = alone.score

(***************************************************************************)
(* The scorer on quiet snapshots: every family computed, the band          *)
(* indicators on or inside their bands or RSI off it, MACD at or above its *)
(* signal, the close off both SMAs.                                        *)
(***************************************************************************)
QuietSnapshots(len) ==
    { [k \in TrendKeys \cup MomentumKeys \cup VolumeKeys |->
          CASE k = "RSI_14" -> <<rsi>>
            [] k = "MACD" -> m
            [] k = "MACD_signal" -> ms
            [] k = "BB_percent" -> <<bb>>
            [] k = "SMA_20" -> <<s20>>
            [] k = "SMA_50" -> <<s50>>
            [] k = "Williams_R" -> <<wr>>
            [] OTHER -> <<mfi>>] :
        rsi \in {F(25), F(50), F(75)},
        m \in Tails({F(1), F(2)}, len), ms \in Tails({F(1)}, len),
        bb \in {F(20), F(50), F(80)},
        s20 \in {F(1), F(3)}, s50 \in {F(1), F(3)},
        wr \in {F(0 - 80), F(0 - 50), F(0 - 20)},
        mfi \in {F(20), F(50), F(80)} }

\* An analyzer on which calculate_all_indicators has run
SnapshotInit ==
    /\ data \in [len : DataLengths, close : {F(2)}]
    /\ indicators \in QuietSnapshots(data.len)
    /\ scorer_pc = "new"
    /\ signals = EmptySignals
    /\ FetchIdle
    /\ BatchIdle

\* The caller changes the dict that line 292 returned
edit_report ==
    /\ scorer_pc \in {"scored", "rescored"}
    /\ scorer_pc' = "edited"
    /\ signals' = [signals EXCEPT !.buy = Append(@, Label("caller_edit", NaN)),
                                  !.score = @ + 1]
    /\ UNCHANGED <<data, indicators>>
    /\ UNCHANGED <<fetchVars, batchVars>>

SnapshotNext ==
    \/ generate_trading_signals
    \/ edit_report
SpecSnapshots == SnapshotInit /\ [][SnapshotNext]_vars

\* The snapshot of the scenario: RSI 25, MACD and its signal 1.0 at both
\* indices, %b 0.5, the close above both SMAs, Williams %R -50, MFI 50
IsScenario ==
    /\ data.len > 1
    /\ Last("RSI_14") = F(25)
    /\ \A k \in {"MACD", "MACD_signal"} : Last(k) = F(1) /\ Prev(k) = F(1)
    /\ Last("BB_percent") = F(50)
    /\ gt(data.close, Last("SMA_20")) /\ gt(data.close, Last("SMA_50"))
    /\ Last("Williams_R") = F(0 - 50)
    /\ Last("MFI") = F(50)

\* C12: on that snapshot the report is buy = ["RSI超卖 (25.0)",
\* "价格高于主要均线"] in that order, sell = [], neutral = [], score = 35.
C12_Scenario ==
    (Scored /\ IsScenario) =>
        signals = [buy |-> <<Label("RSI_oversold", Printed(FALSE, 25, 0, 1)),
                             Label("price_above_SMAs", NaN)>>,
                   sell |-> <<>>, neutral |-> <<>>, score |-> 35]

\* C12 witness: the snapshot was scored
C12_Witness == Scored /\ IsScenario /\ signals.score = 35

\* C13 as stated: the score is not bounded to [-100, 100]; when the rules
\* align (all six on the buy side, or all six on the sell side) the score
\* is above 100 or below -100.
C13_ExceedsHundred ==
    (Scored /\ (Len(signals.buy) = 6 \/ Len(signals.sell) = 6)) =>
        (signals.score > 100 \/ signals.score < 0 - 100)

\* C13 amended: the score is the unclamped sum of the weights, and the
\* weights keep it within [-100, 100]: with all six rules on the buy side it
\* is 95, with all six on the sell side -95.
C13_AlignedScore ==
    Scored =>
        /\ 0 - 100 <= signals.score /\ signals.score <= 100
        /\ Len(signals.buy) = 6 => signals.score = 95
        /\ Len(signals.sell) = 6 => signals.score = 0 - 95

\* C13 witness: all six rules gave a buy
C13_Witness == Scored /\ Len(signals.buy) = 6 /\ signals.score = 95
(***************************************************************************)
(* Batch fetches                                                           *)
(***************************************************************************)
Succeeded == {j \in 1..Len(log) : log[j].returned # None}
Failed == {j \in 1..Len(log) : log[j].returned = None}
LinesOf(kind) == SelectSeq(printed, LAMBDA l : l.kind = kind)

C15_CanonicalTranslation ==
    LET same_duration ==
            "1min" :> "1m" @@ "5min" :> "5m" @@ "15min" :> "15m" @@ "30min" :> "30m" @@
            "1hour" :> "1h" @@ "4hour" :> "4h" @@ "6hour" :> "6h" @@ "12hour" :> "12h" @@
            "1day" :> "1d" @@ "1week" :> "1w"
    IN  \A j \in 1..Len(log) :
            (log[j].provider = "binance" /\ granularity \in DOMAIN same_duration) =>
                log[j].interval = same_duration[granularity]

\* C16: a granularity without an entry in granularity_map is sent to Binance
\* as the nearest supported interval that is not finer than the one asked for.
C16_NearestCoarser ==
    LET minutes ==
            "1m" :> 1 @@ "3m" :> 3 @@ "5m" :> 5 @@ "15m" :> 15 @@ "30m" :> 30 @@
            "1h" :> 60 @@ "2h" :> 120 @@ "4h" :> 240 @@ "6h" :> 360 @@ "8h" :> 480 @@
            "12h" :> 720 @@ "1d" :> 1440 @@ "3d" :> 4320 @@ "1w" :> 10080 @@ "1M" :> 43200
        asked == "1hour" :> 60 @@ "1h" :> 60 @@ "1day" :> 1440
    IN  \A j \in 1..Len(log) :
            (log[j].provider = "binance" /\ granularity \notin DOMAIN granularity_map) =>
                /\ minutes[log[j].interval] >= asked[granularity]
                /\ \A t \in DOMAIN minutes :
                      minutes[t] >= asked[granularity] =>
                          minutes[log[j].interval] <= minutes[t]

(***************************************************************************)
(* Backoff                                                                 *)
(***************************************************************************)
\* C20: within one provider, whenever attempt k has failed and another
\* attempt follows, the wait before the next request (the backoff of attempt
\* k plus the pre-delay of attempt k + 1) is at least retry_delay * 2^k,
\* whatever the failure class.
C20_BackoffAfterEveryFailure ==
    LET seconds(s) == IF s = NoSleep THEN 0 ELSE s[1]
        next_pre == IF pc = "bitget" THEN pre_delays(attempt, 10, 30)
                                     ELSE pre_delays(attempt, 5, 20)
    IN  (pc \in {"bitget", "binance", "yfinance"} /\ attempt >= 1 /\ attempt < retry_count) =>
            \A pre \in next_pre :
                seconds(slept.backoff) + seconds(pre) >= retry_delay * (2 ^ (attempt - 1))

MaxSeriesLen == 21

SeriesLengths == 20..MaxSeriesLen
SeriesSteps == {0 - 20, 0, 20, 40}
SeriesTurns == {5, 17}

\* The closes that start at 1000 and move by step a for the first turn bars,
\* by step b afterwards
Closes(len, a, b, turn) ==
    [i \in 1..len |-> IF i - 1 <= turn THEN 1000 + a * (i - 1)
                                       ELSE 1000 + a * turn + b * (i - 1 - turn)]

SeriesFrames ==
    {[len |-> len, close |-> F(Closes(len, a, b, turn)[len]), closes |-> Closes(len, a, b, turn)] :
        len \in SeriesLengths, a \in SeriesSteps, b \in SeriesSteps, turn \in SeriesTurns}

\* The gain and the loss of bar i against the bar before it
gain(close, i) == IF i > 1 /\ close[i] > close[i - 1] THEN close[i] - close[i - 1] ELSE 0
loss(close, i) == IF i > 1 /\ close[i] < close[i - 1] THEN close[i - 1] - close[i] ELSE 0

RECURSIVE SumOver(_, _, _)
SumOver(x, from, to) == IF from > to THEN 0 ELSE x[to] + SumOver(x, from, to - 1)

\* Wilder's smoothed average of the changes x at bar i > window, times 10000:
\* the simple mean of the first window changes, then (prev * (w - 1) + x) / w
RECURSIVE wilder_average(_, _, _)
wilder_average(x, window, i) ==
    IF i = window + 1
        THEN (SumOver(x, 2, window + 1) * 10000) \div window
        ELSE (wilder_average(x, window, i - 1) * (window - 1) + x[i] * 10000) \div window

\* 100 * g / (g + l) as a whole percent, rounded away from 50, which leaves
\* the comparisons with 30 and 70 as they are
percent(g, l) ==
    LET q == (100 * g) \div (g + l)
    IN  IF (100 * g) % (g + l) = 0 \/ q < 50 THEN q ELSE q + 1

\* ta.momentum.rsi(close, window): undefined in the warm-up, 100 when the
\* average loss is 0, else 100 - 100 / (1 + avg_gain / avg_loss)
rsi(close, window) ==
    LET gains == [i \in 1..Len(close) |-> gain(close, i)]
        losses == [i \in 1..Len(close) |-> loss(close, i)]
    IN  [i \in 1..Len(close) |->
            IF i <= window THEN NaN
            ELSE IF wilder_average(losses, window, i) = 0 THEN F(100)
            ELSE F(percent(wilder_average(gains, window, i),
                           wilder_average(losses, window, i)))]

\* ta.trend.sma_indicator(close, window): the mean of the last window closes,
\* undefined at the first window - 1 bars
sma_indicator(close, window) ==
    [i \in 1..Len(close) |->
        IF i < window THEN NaN
        ELSE F(SumOver(close, i - window + 1, i) \div window)]

\* A series that is undefined before bar window and v from there on
warm(len, window, v) == [i \in 1..len |-> IF i < window THEN NaN ELSE v]

\* self.indicators for the frame d with SMA_20 taken over the wrong window
series_indicators_short_window(d) ==
    {[k \in KeysOf(AllFamilies) |->
        CASE k = "RSI_14" -> rsi(d.closes, 14)
          [] k = "SMA_20" -> sma_indicator(d.closes, 10)
          [] k = "SMA_50" -> sma_indicator(d.closes, 50)
          [] k = "MACD" -> warm(d.len, 26, F(1))
          [] k = "MACD_signal" -> warm(d.len, 34, F(1))
          [] k = "BB_percent" -> warm(d.len, 20, bb)
          [] k = "Williams_R" -> warm(d.len, 14, wr)
          [] k = "MFI" -> warm(d.len, 14, mfi)] :
        bb \in {NaN, F(10), F(50), F(90)},
        wr \in {F(0 - 90), F(0 - 50), F(0 - 10)},
        mfi \in {F(10), F(50), F(90)}}

\* self.indicators after calculate_all_indicators on the frame d (lines 36-38,
\* 45-55, 77-78, 85, 152-156 for the keys the scorer reads): SMA and RSI of
\* the closes; the MACD pair in its warm-up; %b, Williams %R and MFI, which
\* depend on highs, lows and volumes, at any value
series_indicators(d) ==
    {[k \in KeysOf(AllFamilies) |->
        CASE k = "RSI_14" -> rsi(d.closes, 14)
          [] k = "SMA_20" -> sma_indicator(d.closes, 20)
          [] k = "SMA_50" -> sma_indicator(d.closes, 50)
          [] k = "MACD" -> warm(d.len, 26, F(1))
          [] k = "MACD_signal" -> warm(d.len, 34, F(1))
          [] k = "BB_percent" -> warm(d.len, 20, bb)
          [] k = "Williams_R" -> warm(d.len, 14, wr)
          [] k = "MFI" -> warm(d.len, 14, mfi)] :
        bb \in {NaN, F(10), F(50), F(90)},
        wr \in {F(0 - 90), F(0 - 50), F(0 - 10)},
        mfi \in {F(10), F(50), F(90)}}

SeriesInit ==
    /\ data \in SeriesFrames
    /\ indicators = NoIndicators
    /\ scorer_pc = "new"
    /\ signals = EmptySignals
    /\ FetchIdle
    /\ BatchIdle

\* lines 178-198 on a series
calculate_all_indicators_on_series ==
    /\ scorer_pc = "new"
    /\ DOMAIN indicators = {}
    /\ indicators' \in series_indicators(data)
    /\ UNCHANGED <<data, scorer_pc, signals>>
    /\ UNCHANGED <<fetchVars, batchVars>>

\* lines 200-292 on a series
generate_trading_signals_on_series ==
    /\ scorer_pc \in {"new", "scored"}
    /\ \E ind \in (IF DOMAIN indicators = {} THEN series_indicators(data) ELSE {indicators}) :
          /\ indicators' = ind
          /\ signals' = score_signals(ind, data)
    /\ scorer_pc' = "scored"
    /\ UNCHANGED data
    /\ UNCHANGED <<fetchVars, batchVars>>

SeriesNext ==
    \/ calculate_all_indicators_on_series
    \/ generate_trading_signals_on_series
SpecSeries == SeriesInit /\ [][SeriesNext]_vars

StrictlyIncreasing == \A i \in 2..data.len : data.closes[i] > data.closes[i - 1]
Computed == DOMAIN indicators # {}

\* C17: on strictly increasing closes of length 20 or more RSI_14 is above 30
\* wherever it is defined, and the report has no RSI oversold entry.
C17_IncreasingNeverOversold ==
    (StrictlyIncreasing /\ Computed) =>
        /\ \A i \in 1..data.len :
              isna(indicators["RSI_14"][i]) \/ Val(indicators["RSI_14"][i]) > 30
        /\ Scored =>
              \A j \in 1..Len(signals.buy) : signals.buy[j].text # "RSI_oversold"

\* A scored strictly increasing series whose RSI_14 is defined at the last bar
C17_Witness ==
    /\ StrictlyIncreasing
    /\ Scored
    /\ data.closes[2] - data.closes[1] # data.closes[data.len] - data.closes[data.len - 1]
    /\ indicators["RSI_14"][data.len] = F(100)
    /\ \E j \in 1..Len(signals.sell) : signals.sell[j].text = "RSI_overbought"

\* C18: on constant closes c of length 20 or more SMA_20 is undefined at the
\* first 19 bars and is c at every bar from the 20th on.
C18_ConstantSma ==
    (Computed /\ \A i \in 1..data.len : data.closes[i] = data.closes[1]) =>
        \A i \in 1..data.len :
            indicators["SMA_20"][i] = IF i < 20 THEN NaN ELSE F(data.closes[1])

\* A computed constant series longer than the window
C18_Witness ==
    /\ Computed
    /\ data.len > 20
    /\ \A i \in 1..data.len : data.closes[i] = data.closes[1]
    /\ indicators["SMA_20"][data.len] = F(1000)

\* C21 as stated: every backoff after a rate-limited attempt lasts at least
\* 10 seconds, on every provider.
C21_TenSecondFloor ==
    (log # <<>> /\ log[Len(log)].class = "RateLimited" /\ slept.backoff # NoSleep) =>
        slept.backoff[1] >= 100

\* C21: every backoff after a rate-limited attempt lasts at least the floor
\* of its provider: 15 seconds (10 plus a jitter of 5 to 15) on Bitget and
\* yfinance, 7 seconds (5 plus a jitter of 2 to 8) on Binance.
C21_ProviderFloor ==
    (log # <<>> /\ log[Len(log)].class = "RateLimited" /\ slept.backoff # NoSleep) =>
        slept.backoff[1] >= (IF log[Len(log)].provider = "binance" THEN 70 ELSE 150)

\* A rate-limited Binance attempt backed off for less than 10 seconds
C21_Witness ==
    /\ log # <<>>
    /\ log[Len(log)].class = "RateLimited"
    /\ log[Len(log)].provider = "binance"
    /\ slept.backoff # NoSleep
    /\ slept.backoff[1] < 100

\* C22: for a non-negative retry_delay the backoff after failed attempt k is
\* at least retry_delay * 2^k, the jitter being non-negative, and so the
\* backoff after attempt k + 1 is at least the exponential term of attempt k.
C22_MonotoneBackoff ==
    (pc = "yfinance" /\ attempt >= 1 /\ slept.backoff # NoSleep) =>
        LET k == attempt - 1
        IN  /\ slept.backoff[1] >= retry_delay * (2 ^ k)
            /\ k >= 1 => slept.backoff[1] >= retry_delay * (2 ^ (k - 1))

\* The second attempt failed with an exception and was backed off
C22_Witness ==
    /\ pc = "yfinance"
    /\ attempt = 2
    /\ retry_delay > 0
    /\ log[2].class = "NetworkError"
    /\ slept.backoff # NoSleep

(***************************************************************************)
(* Pre-delays                                                              *)
(***************************************************************************)
\* C23: within one provider the first request is sent with no pre-delay, and
\* every later request is preceded by exactly one pre-delay within the bounds
\* of its provider: 1.0 to 3.0 seconds on Bitget, 0.5 to 2.0 on Binance and
\* yfinance.
C23_PreDelay ==
    log # <<>> =>
        LET provider == log[Len(log)].provider
            index == Cardinality(Requests(provider)) - 1
            lo == IF provider = "bitget" THEN 10 ELSE 5
            hi == IF provider = "bitget" THEN 30 ELSE 20
        IN  IF index = 0 THEN slept.pre = NoSleep
            ELSE /\ Len(slept.pre) = 1
                 /\ lo <= slept.pre[1]
                 /\ slept.pre[1] <= hi

\* The second Binance request, sent after a pre-delay of half a second
C23_Witness ==
    /\ Cardinality(Requests("binance")) = 2
    /\ slept.pre = <<5>>

(***************************************************************************)
(* Records that fail coercion                                              *)
(***************************************************************************)
\* C24: a record that fails numeric coercion fails only its attempt: the
\* attempt counts as a MalformedResponse and returns nothing, the fetch goes
\* on (it ends with nothing only when Binance has used all its attempts), and
\* a frame that is returned holds every record of its payload.
C24_CoercionFailsOneAttempt ==
    /\ \A j \in 1..Len(log) :
          log[j].in_convert => log[j].class = "MalformedResponse"
    /\ (log # <<>> /\ log[Len(log)].in_convert) =>
          /\ pc # "raised"
          /\ result = None
          /\ pc = "done" => Cardinality(Requests("binance")) = retry_count
          /\ pc = "bitget" => attempt = Cardinality(Requests("bitget"))
    /\ result # None =>
          /\ log[Len(log)].class = "Success"
          /\ Len(result.rows) = log[Len(log)].records

\* Bitget's first attempt failed in the conversion, its second returned both
\* records of a well-formed payload
C24_Witness ==
    /\ Len(log) = 2
    /\ log[1].provider = "bitget" /\ log[1].in_convert
    /\ log[2].provider = "bitget" /\ log[2].class = "Success"
    /\ Len(result.rows) = 2

(***************************************************************************)
(* Inter-symbol delays                                                     *)
(***************************************************************************)
\* C25: a batch inserts exactly one delay between two consecutive symbols,
\* after a success as after a failure, and none after the last symbol: the
\* delay lines stand between the outcome of one symbol and the start of the
\* next, each within the range of its batch, and a finished batch of n >= 1
\* symbols has slept n - 1 times.
C25_InterSymbolDelays ==
    pc \in {"batch_cryptos", "batch_stocks", "batch_done"} =>
        LET waits == {j \in 1..Len(printed) : printed[j].kind = "waiting"}
            starts == {j \in 1..Len(printed) : printed[j].kind = "processing"}
            lo == IF pc = "batch_stocks" THEN 20 ELSE 30
            hi == IF pc = "batch_stocks" THEN 50 ELSE 60
        IN  /\ Cardinality(starts) = batch_i
            /\ Cardinality(waits) =
                  IF batch_i = Len(symbols) /\ batch_i > 0 THEN batch_i - 1 ELSE batch_i
            /\ \A j \in waits :
                  /\ printed[j - 1].kind \in {"success", "failed"}
                  /\ j < Len(printed) => printed[j + 1].kind = "processing"
                  /\ pc # "batch_done" => (lo <= printed[j].shown /\ printed[j].shown <= hi)
            /\ \A j \in starts : j > 2 => printed[j - 1].kind = "waiting"
            /\ pc = "batch_done" => printed[Len(printed) - 1].kind # "waiting"

\* A finished batch of two symbols, the first of which failed: one delay
C25_Witness ==
    /\ pc = "batch_done"
    /\ Len(symbols) = 2
    /\ log[1].returned = None
    /\ Len(LinesOf("waiting")) = 1

(***************************************************************************)
(* Termination                                                             *)
(***************************************************************************)
\* C26: every fetch returns, after at most retry_count requests to each
\* provider it asks (at most 2 * retry_count for get_crypto_data, at most
\* retry_count for get_stock_data): every step keeps the requests within the
\* budgets, brings the return nearer (the steps left, counted from the
\* position in the fetch and the attempts left, go down and stay at or above
\* 0) and leaves a fetch that has either returned or can take its next step.
C26_Terminates ==
    [][LET left(at, k) == CASE at = "idle" -> 2 * retry_count + 4
                            [] at = "bitget" -> (retry_count - k) + retry_count + 2
                            [] at \in {"binance", "yfinance"} -> (retry_count - k) + 1
                            [] OTHER -> 0
           sent(p) == Cardinality({i \in 1..Len(log') : log'[i].provider = p})
       IN  /\ \A p \in {"bitget", "binance", "yfinance"} : sent(p) <= retry_count
           /\ Len(log') <= 2 * retry_count
           /\ sent("yfinance") > 0 => Len(log') <= retry_count
           /\ left(pc', attempt') < left(pc, attempt)
           /\ left(pc', attempt') >= 0
           /\ \/ pc' = "done"
              \/ pc' \in {"bitget", "binance", "yfinance"} /\ attempt' <= retry_count]_vars

\* A get_crypto_data that returned after using both budgets in full
C26_Witness ==
    /\ pc = "done"
    /\ retry_count = MaxRetry
    /\ Cardinality(Requests("bitget")) = retry_count
    /\ Cardinality(Requests("binance")) = retry_count

\* C27: no backoff follows the last attempt of a provider: when a loop has
\* used all its attempts, when Binance is about to be asked for the first
\* time, and when the fetch has returned None, the last iteration has not
\* slept after its request; and the first Binance request has no pre-delay.
C27_NoBackoffAfterLast ==
    /\ (pc \in {"bitget", "binance", "yfinance"} /\ attempt = retry_count) =>
          slept.backoff = NoSleep
    /\ (pc = "binance" /\ attempt = 0) => slept.backoff = NoSleep
    /\ (pc = "done" /\ result = None) => slept.backoff = NoSleep
    /\ (Cardinality(Requests("binance")) = 1 /\ log[Len(log)].provider = "binance") =>
          slept.pre = NoSleep

\* Bitget's last attempt was rate limited; Binance has been asked once
C27_Witness ==
    /\ retry_count = MaxRetry
    /\ Cardinality(Requests("bitget")) = retry_count
    /\ log[retry_count].class = "RateLimited"
    /\ Len(log) = retry_count + 1
    /\ slept.pre = NoSleep

(***************************************************************************)
(* One-bar series                                                          *)
(***************************************************************************)
\* C28: on a series of one bar the previous index is the current one, and the
\* report holds neither the MACD golden cross nor the dead cross, whatever
\* MACD and its signal are.
C28_OneBarNoCross ==
    data.len = 1 =>
        /\ prev_idx(data.len) = 0 - 1
        /\ Scored => (Texts(signals.buy) \cup Texts(signals.sell)) \cap MacdTexts = {}

\* A scored one-bar series whose MACD is above its signal
C28_Witness ==
    /\ data.len = 1
    /\ Scored
    /\ Has({"RSI_14", "MACD", "MACD_signal"})
    /\ gt(Last("MACD"), Last("MACD_signal"))

(***************************************************************************)
(* The shape of a report                                                   *)
(***************************************************************************)
\* C29: in every report each of the six rules has at most one entry over
\* buy, sell and neutral together, the entries of each list stand in the
\* order of the rules, no rule is in both buy and sell, and the score is a
\* multiple of 5 between -95 and 95.
C29_ReportShape ==
    Scored =>
        LET rule(text) == CHOOSE r \in 1..6 : text \in RuleTexts[r]
            ordered(list) == \A i, j \in 1..Len(list) :
                                i < j => rule(list[i].text) < rule(list[j].text)
        IN  /\ \A r \in 1..6 : EntriesOf(RuleTexts[r]) <= 1
            /\ ordered(signals.buy) /\ ordered(signals.sell) /\ ordered(signals.neutral)
            /\ \A r \in 1..6 :
                  ~(Texts(signals.buy) \cap RuleTexts[r] # {}
                    /\ Texts(signals.sell) \cap RuleTexts[r] # {})
            /\ signals.score \in (0 - 95)..95
            /\ signals.score % 5 = 0

\* A report with two entries in buy and two in sell
C29_Witness ==
    /\ Scored
    /\ Len(signals.buy) >= 2
    /\ Len(signals.sell) >= 2
    /\ Len(signals.neutral) = 1

(***************************************************************************)
(* StockAnalysisSystem.display_batch_results                               *)
(***************************************************************************)
MaxResults == 2

\* The scores generate_trading_signals can return: each rule adds its
\* weight, subtracts it or leaves the score alone
ReachableScores ==
    {rsi_w + macd_w + bb_w + sma_w + wr_w + mfi_w :
        rsi_w \in {0 - 20, 0, 20}, macd_w \in {0 - 25, 0, 25}, bb_w \in {0 - 15, 0, 15},
        sma_w \in {0 - 15, 0, 15}, wr_w \in {0 - 10, 0, 10}, mfi_w \in {0 - 10, 0, 10}}

\* The analysis results handed to display_batch_results, as far as it reads
\* them for the recommendation and the counts
ResultLists ==
    UNION {[1..n -> [score : ReachableScores]] : n \in 0..MaxResults}

\* sorted(results, key=score, reverse=True): stable, highest score first
RECURSIVE insert_by_score(_, _)
insert_by_score(r, sorted) ==
    IF sorted = <<>> THEN <<r>>
    ELSE IF Head(sorted).score < r.score THEN <<r>> \o sorted
    ELSE <<Head(sorted)>> \o insert_by_score(r, Tail(sorted))

RECURSIVE sorted_by_score(_)
sorted_by_score(list) ==
    IF list = <<>> THEN <<>>
    ELSE insert_by_score(list[Len(list)], sorted_by_score(SubSeq(list, 1, Len(list) - 1)))

\* lines 292-297: the recommendation of a row
recommendation(score) ==
    IF score > 10 THEN "buy" ELSE IF score > 0 - 10 THEN "hold" ELSE "sell"

\* lines 304-306: the three counts of the summary
buy_count(list) == Cardinality({i \in 1..Len(list) : list[i].score > 10})
hold_count(list) ==
    Cardinality({i \in 1..Len(list) : 0 - 10 <= list[i].score /\ list[i].score <= 10})
sell_count(list) == Cardinality({i \in 1..Len(list) : list[i].score < 0 - 10})

DisplayInit ==
    /\ results \in ResultLists
    /\ symbols = <<>> /\ batch_i = 0 /\ printed = <<>>
    /\ FetchIdle
    /\ AnalyzerIdle

\* lines 274-310
display_batch_results ==
    /\ pc = "idle"
    /\ pc' = "displayed"
    /\ LET sorted_results == sorted_by_score(results)
       IN  printed' =
               [i \in 1..Len(sorted_results) |->
                   Line("row", <<sorted_results[i].score,
                                 recommendation(sorted_results[i].score)>>)]
               \o <<Line("buy_count", buy_count(results)),
                    Line("hold_count", hold_count(results)),
                    Line("sell_count", sell_count(results))>>
    /\ UNCHANGED <<symbols, batch_i, results>>
    /\ UNCHANGED <<retry_count, retry_delay, attempt, granularity, log, slept, result>>
    /\ UNCHANGED analyzerVars

DisplayNext == display_batch_results
SpecDisplay == DisplayInit /\ [][DisplayNext]_vars

\* C30: the rows and the summary of display_batch_results agree: as many
\* rows are labelled buy, hold and sell as the three counts say, and the
\* counts add up to the number of results.
C30_RowsMatchCounts ==
    pc = "displayed" =>
        LET rows(label) == Cardinality({i \in 1..Len(printed) :
                                printed[i].kind = "row" /\ printed[i].shown[2] = label})
            count(kind) == LinesOf(kind)[1].shown
        IN  /\ rows("buy") = count("buy_count")
            /\ rows("hold") = count("hold_count")
            /\ rows("sell") = count("sell_count")
            /\ count("buy_count") + count("hold_count") + count("sell_count") = Len(results)

====
